---- MODULE Spec2Model ----
(***************************************************************************)
(* Model of the stream dispatcher of daydreams: handleStream drives the    *)
(* tag parser over text chunks and keeps the element stack; the handler    *)
(* returned by createContextStreamHandler turns element updates into log   *)
(* records, commits them to the chain and the working memory, and starts   *)
(* action executions and output dispatch in the background.                *)
(*                                                                         *)
(* A run ("session") is one handleStream call wired to one handler.  The   *)
(* variables are functions of the session so that two runs over the same   *)
(* document can be compared.                                               *)
(***************************************************************************)
EXTENDS Naturals, Integers, Sequences, FiniteSets, TLC

\* ------------------------------------------------------------------ bounds
\* Number of top-level element templates a document is made of.
MaxElems == 2
\* Number of atoms (characters and tag halves) one chunk may hold.
MaxChunk == 8
\* Largest initial sequence index handleStream is called with.
MaxInitialIndex == 1
\* Largest reading of the clock (Date.now()) in the runs in which time passes.
MaxClock == 2

\* ------------------------------------------------------------- text stream
\* The text is a sequence of atoms.  A tag is two atoms, "<name" and
\* "attributes>", so that a chunk boundary can fall inside a tag; a
\* character of text is one atom.
Lt(close, tag) == [k |-> "lt", close |-> close, tag |-> tag, name |-> "", type |-> "", c |-> ""]
Gt(name, type) == [k |-> "gt", close |-> FALSE, tag |-> "", name |-> name, type |-> type, c |-> ""]
Tx(c) == [k |-> "tx", close |-> FALSE, tag |-> "", name |-> "", type |-> "", c |-> c]

\* No tag half is buffered.
NoAtom == [k |-> "none", close |-> FALSE, tag |-> "", name |-> "", type |-> "", c |-> ""]

Open(tag, name, type) == << Lt(FALSE, tag), Gt(name, type) >>
Close(tag) == << Lt(TRUE, tag), Gt("", "") >>

\* The tag set the handler hands to handleStream.
defaultTags == {"think", "response", "output", "action_call", "reasoning"}

\* The action registry of the session: "act" succeeds, "bad" is registered
\* and its handler throws; any other name is not registered.
Registered == {"act", "bad"}

\* Element templates the documents are built from.
Templates ==
    << Open("think", "", "") \o << Tx("a"), Tx("b") >> \o Close("think"),
       Open("action_call", "act", "") \o << Tx("a") >> \o Close("action_call"),
       Open("action_call", "bad", "") \o Close("action_call"),
       Open("action_call", "foo", "") \o << Tx("b") >> \o Close("action_call"),
       Open("output", "", "one") \o << Tx(" "), Tx("a"), Tx(" ") >> \o Close("output"),
       Open("output", "", "many") \o << Tx("b") >> \o Close("output"),
       Open("output", "", "") \o << Tx("a") >> \o Close("output"),
       Open("reasoning", "", "") \o << Tx("a") >> \o Open("b", "", "")
           \o Open("think", "", "") \o << Tx("b") >> \o Close("think")
           \o << Tx("a") >> \o Close("reasoning"),
       Open("response", "", "") \o << Tx("a") >>,
       Close("think"),
       Open("action_call", "act", "") \o Open("think", "", "") \o << Tx("a") >>
           \o Close("think") \o Close("action_call") >>

RECURSIVE Concat(_)
Concat(ss) == IF ss = << >> THEN << >> ELSE Head(ss) \o Concat(Tail(ss))

TemplateSeqs == UNION { [1..n -> 1..Len(Templates)] : n \in 1..MaxElems }

Docs == { Concat([i \in DOMAIN f |-> Templates[f[i]]]) : f \in TemplateSeqs }

\* ------------------------------------------------------------------ parser
StartEv(tag, name, type) == [type |-> "start", name |-> tag, attributes |-> [name |-> name, type |-> type], content |-> << >>]
EndEv == [type |-> "end", name |-> "", attributes |-> [name |-> "", type |-> ""], content |-> << >>]
TextEv(cs) == [type |-> "text", name |-> "", attributes |-> [name |-> "", type |-> ""], content |-> cs]

FlushText(text) == IF text = << >> THEN << >> ELSE << TextEv(text) >>

\* One chunk through the parser: buf is the half of a tag carried over from
\* the previous chunk (NoAtom if none), text the run of characters read so far
\* in this chunk, out the events produced so far.  A recognized tag gives a
\* start or end event once its second half has arrived; a tag that is not
\* recognized passes through as the text "#"; the text of a chunk is one
\* text event per run.
RECURSIVE Scan(_, _, _, _, _)
Scan(tags, atoms, buf, text, out) ==
    IF atoms = << >> THEN [events |-> out \o FlushText(text), buf |-> buf]
    ELSE LET a == Head(atoms)
             rest == Tail(atoms)
         IN  CASE a.k = "tx" -> Scan(tags, rest, buf, Append(text, a.c), out)
               [] a.k = "lt" -> Scan(tags, rest, a, text, out)
               [] a.k = "gt" ->
                    IF buf = NoAtom THEN Scan(tags, rest, NoAtom, text, out)
                    ELSE IF buf.tag \notin tags
                         THEN Scan(tags, rest, NoAtom, Append(text, "#"), out)
                    ELSE IF buf.close
                         THEN Scan(tags, rest, NoAtom, << >>, (out \o FlushText(text)) \o << EndEv >>)
                    ELSE Scan(tags, rest, NoAtom, << >>,
                              (out \o FlushText(text)) \o << StartEv(buf.tag, a.name, a.type) >>)

xmlStreamParser(tags, buf, chunk) == Scan(tags, chunk, buf, << >>, << >>)

\* ------------------------------------------------------------ log records
\* Log: the union of Thought, ActionCall, ActionResult and OutputRef.  data
\* is the payload of an output; error says that the data of a result is
\* {error: ...}.  A record is built with the timestamp 0 and stamped with At.
Log(ref, id, name, type, content, callId, data, error) ==
    [ref |-> ref, id |-> id, timestamp |-> 0, name |-> name, type |-> type,
     content |-> content, callId |-> callId, data |-> data, error |-> error]

\* The record with this timestamp.
At(log, timestamp) == [log EXCEPT !.timestamp = timestamp]

\* Ids are 1, 2, ...; 0 stands for a field the record does not have.
Thought(id, content) == Log("thought", id, "", "", content, 0, << >>, FALSE)
ActionCall(id, name, content) == Log("action_call", id, name, "", content, 0, << >>, FALSE)
ActionResult(id, callId, name, error) == Log("action_result", id, name, "", << >>, callId, << >>, error)
OutputRef(id, type, data) == Log("output", id, "", type, << >>, 0, data, FALSE)

\* The text of the last fragment for the text of all of them.
JoinLastFragment(content) == IF content = << >> THEN << >> ELSE content[Len(content)]

\* el.content.join("")
Join(content) == Concat(content)

\* String.prototype.trim, with " " the only white space of the model.
RECURSIVE TrimLeft(_)
TrimLeft(cs) == IF cs # << >> /\ Head(cs) = " " THEN TrimLeft(Tail(cs)) ELSE cs

RECURSIVE TrimRight(_)
TrimRight(cs) ==
    IF cs # << >> /\ cs[Len(cs)] = " " THEN TrimRight(SubSeq(cs, 1, Len(cs) - 1)) ELSE cs

Trim(cs) == TrimRight(TrimLeft(cs))

Max(a, b) == IF a >= b THEN a ELSE b

\* ------------------------------------------------------------- dispatcher
\* The state createContextStreamHandler closes over, for one session:
\*   aborted      abortSignal.aborted
\*   index        state.index
\*   logsByIndex  state.logsByIndex: element index -> partial log
\*   chain        the chain
\*   thoughts, calls, results, outputs   the working memory
\*   actionCalls  the promises pushed to actionCalls: the call and whether
\*                the promise is pending, fulfilled or rejected
\*   prepQ        calls suspended at "await prepareActionCall"
\*   outQ         output refs suspended at "await handleOutput"
\*   running      calls whose handleActionCall promise has not settled
\*   settledQ     settled handleActionCall promises whose .catch/.then
\*                reactions have not run yet, in settlement order
\*   nextId       the next value of randomUUIDv7
\*   now          Date.now()
\*   lastLog, logTick   the last onLogStream(log, done) and a bit flipped
\*                at each invocation of the hook
\*   nThinking    invocations of onThinking
\*   generateMemories   agent.memory.generateMemories
\*   episodes     invocations of generateEpisode: the ids of the thought, the
\*                call and the result it was given, and whether its promise
\*                is pending, has fulfilled, or has rejected and the failure
\*                has been logged
\*   errors       logger.error("agent:output", ...) invocations: the index
\*                of the element of each
\* and, kept for the properties only:
\*   completed    the ids of the calls whose execution has settled, in the
\*                order of settlement
\*   chainAtAbort, indexAtAbort, fnAtAbort   the length of the chain, the
\*                index handleStream would give the next element and the
\*                number of callback invocations, when the signal was
\*                aborted (-1 before)
\*   updates      what onLogStream has been invoked with, in order: the id,
\*                the kind and the timestamp of the log, and done
\*   processed    the indices of the elements handler was invoked with
\*                while the signal was not aborted
InitDisp(generateMemories) ==
    [aborted |-> FALSE, generateMemories |-> generateMemories, index |-> 0, logsByIndex |-> << >>, chain |-> << >>,
     thoughts |-> << >>, calls |-> << >>, results |-> << >>, outputs |-> << >>,
     actionCalls |-> << >>, prepQ |-> << >>, outQ |-> << >>, running |-> {},
     settledQ |-> << >>, nextId |-> 1, now |-> 0,
     lastLog |-> [id |-> 0, done |-> FALSE], logTick |-> 0,
     nThinking |-> 0, episodes |-> << >>, errors |-> << >>,
     completed |-> << >>, chainAtAbort |-> -1, indexAtAbort |-> -1,
     fnAtAbort |-> -1, updates |-> << >>, processed |-> {}]

\* getOrCreateRef without its "if (!state.logsByIndex.has(index))": a new
\* partial log at every call.
getOrCreateRefAlways(d, index, ref) ==
    [d EXCEPT !.logsByIndex =
                    (index :> [id |-> d.nextId, timestamp |-> d.now, ref |-> ref]) @@ @,
              !.nextId = @ + 1]

\* getOrCreateRef(index, {ref}): the dispatcher after the call; the ref is
\* then logsByIndex[index].
getOrCreateRef(d, index, ref) ==
    IF index \in DOMAIN d.logsByIndex THEN d
    ELSE [d EXCEPT !.logsByIndex =
                        (index :> [id |-> d.nextId, timestamp |-> d.now, ref |-> ref]) @@ @,
                   !.nextId = @ + 1]

\* handlers.onLogStream(log, done)
onLogStream(d, log, done) ==
    [d EXCEPT !.lastLog = [id |-> log.id, done |-> done], !.logTick = 1 - @,
              !.updates = Append(@, [id |-> log.id, ref |-> log.ref,
                                     timestamp |-> log.timestamp, done |-> done])]

\* The episode started for the call the result answers, not for the last
\* call of the working memory.
EpisodeOfCall(d, log) ==
    IF d.thoughts # << >> /\ d.calls # << >> /\ d.generateMemories
    THEN << [thought |-> d.thoughts[Len(d.thoughts)].id,
             call |-> log.callId, result |-> log.id, state |-> "pending"] >>
    ELSE << >>

\* The episode pushLogStream starts when a result is committed: the last
\* thought and the last call of the working memory, if there are both and
\* the agent generates memories.
Episode(d, log) ==
    IF d.thoughts # << >> /\ d.calls # << >> /\ d.generateMemories
    THEN << [thought |-> d.thoughts[Len(d.thoughts)].id,
             call |-> d.calls[Len(d.calls)].id, result |-> log.id,
             state |-> "pending"] >>
    ELSE << >>

\* pushLogStream with the chain written on every update, partial or final.
pushLogStreamAlways(d, log, done) ==
    LET d1 == [d EXCEPT !.chain = Append(@, log)]
        d2 == IF log.ref = "thought" /\ done
              THEN [d1 EXCEPT !.thoughts = Append(@, log), !.nThinking = @ + 1]
              ELSE d1
        d3 == IF log.ref = "action_call" /\ done
              THEN [d2 EXCEPT !.calls = Append(@, log)]
              ELSE d2
        d4 == IF log.ref = "action_result" /\ done
              THEN LET r == [d3 EXCEPT !.results = Append(@, log)]
                   IN  [r EXCEPT !.episodes = @ \o Episode(r, log)]
              ELSE d3
    IN  onLogStream(d4, log, done)

pushLogStream(d, log, done) ==
    LET d1 == IF done THEN [d EXCEPT !.chain = Append(@, log)] ELSE d
        d2 == IF log.ref = "thought" /\ done
              THEN [d1 EXCEPT !.thoughts = Append(@, log), !.nThinking = @ + 1]
              ELSE d1
        d3 == IF log.ref = "action_call" /\ done
              THEN [d2 EXCEPT !.calls = Append(@, log)]
              ELSE d2
        d4 == IF log.ref = "action_result" /\ done
              THEN LET r == [d3 EXCEPT !.results = Append(@, log)]
                   IN  [r EXCEPT !.episodes = @ \o Episode(r, log)]
              ELSE d3
    IN  onLogStream(d4, log, done)

\* handleActionCallStream without its "if (!done)": every update goes on to
\* prepareActionCall.
handleActionCallStreamNoDoneCheck(d, call, done) ==
    [d EXCEPT !.prepQ = Append(@, call)]

\* handleActionCallStream up to its await: a partial update goes to
\* pushLogStream, a final one suspends at "await prepareActionCall".
handleActionCallStream(d, call, done) ==
    IF ~ done THEN pushLogStream(d, call, FALSE)
    ELSE [d EXCEPT !.prepQ = Append(@, call)]

\* handleOutputStream up to its await.
handleOutputStream(d, outputRef, done) ==
    IF ~ done THEN pushLogStream(d, outputRef, FALSE)
    ELSE [d EXCEPT !.outQ = Append(@, outputRef)]

\* handler without its "if (abortSignal?.aborted) return".
handlerNoAbortCheck(d, el) ==
    LET d1 == [d EXCEPT !.index = Max(el.index, @), !.processed = @ \cup {el.index}]
    IN  CASE el.tag \in {"think", "reasoning"} ->
               LET d2 == getOrCreateRef(d1, el.index, "thought")
                   ref == d2.logsByIndex[el.index]
               IN  pushLogStream(d2, At(Thought(ref.id, Join(el.content)), ref.timestamp), el.done)
          [] el.tag = "action_call" ->
               LET d2 == getOrCreateRef(d1, el.index, "action_call")
                   ref == d2.logsByIndex[el.index]
               IN  handleActionCallStream(d2,
                       At(ActionCall(ref.id, el.attributes.name, Join(el.content)), ref.timestamp),
                       el.done)
          [] el.tag = "output" ->
               LET d2 == getOrCreateRef(d1, el.index, "output")
                   ref == d2.logsByIndex[el.index]
               IN  IF el.attributes.type = ""
                   THEN [d2 EXCEPT !.errors = Append(@, el.index)]
                   ELSE handleOutputStream(d2,
                           At(OutputRef(ref.id, el.attributes.type, Trim(Join(el.content))), ref.timestamp),
                           el.done)
          [] OTHER -> d1

\* handler(el)
handler(d, el) ==
    IF d.aborted THEN d
    ELSE LET d1 == [d EXCEPT !.index = Max(el.index, @), !.processed = @ \cup {el.index}]
         IN  CASE el.tag \in {"think", "reasoning"} ->
                    LET d2 == getOrCreateRef(d1, el.index, "thought")
                        ref == d2.logsByIndex[el.index]
                    IN  pushLogStream(d2,
                            At(Thought(ref.id, Join(el.content)), ref.timestamp), el.done)
               [] el.tag = "action_call" ->
                    LET d2 == getOrCreateRef(d1, el.index, "action_call")
                        ref == d2.logsByIndex[el.index]
                    IN  handleActionCallStream(d2,
                            At(ActionCall(ref.id, el.attributes.name, Join(el.content)), ref.timestamp),
                            el.done)
               [] el.tag = "output" ->
                    LET d2 == getOrCreateRef(d1, el.index, "output")
                        ref == d2.logsByIndex[el.index]
                    IN  IF el.attributes.type = ""
                        THEN [d2 EXCEPT !.errors = Append(@, el.index)]
                        ELSE handleOutputStream(d2,
                                At(OutputRef(ref.id, el.attributes.type, Trim(Join(el.content))), ref.timestamp),
                                el.done)
               [] OTHER -> d1

\* ------------------------------------------------------------ handleStream
\* StackElement
StackElement(index, tag, attributes, content, done) ==
    [index |-> index, tag |-> tag, attributes |-> attributes, content |-> content,
     done |-> done]

\* current = undefined
NoElement == StackElement(-1, "", [name |-> "", type |-> ""], << >>, FALSE)

\* The state of one handleStream call:
\*   pos      atoms of the document consumed so far
\*   buf      the parser's buffered tag half
\*   initialIndex   the parameter of handleStream
\*   current, stack, index   the locals of handleStream
\*   fn       the elements the callback has been invoked with so far
\*   returned handleStream has returned
\*   awaited  the number of promises in actionCalls when it returned (-1
\*            before), kept for the properties only
InitStream(initialIndex) ==
    [pos |-> 0, buf |-> NoAtom, current |-> NoElement, stack |-> << >>,
     initialIndex |-> initialIndex, index |-> initialIndex, fn |-> << >>,
     returned |-> FALSE, awaited |-> -1]

\* The callback handleStream is given: the handler of the session.  The pair
\* <<stream, dispatcher>> after fn(el).
fn(st, d, el) ==
    << [st EXCEPT !.fn = Append(@, el)],
       handler(d, el) >>

\* The loop of handleChunk with "fn(current)" at an end event, the snapshot
\* not marked done.
onEventNoDoneFlag(st, d, ev) ==
    CASE ev.type = "start" ->
            LET el == StackElement(st.index, ev.name, ev.attributes, << >>, FALSE)
                st1 == [st EXCEPT !.stack = IF st.current # NoElement
                                            THEN Append(@, st.current) ELSE @,
                                  !.current = el,
                                  !.index = @ + 1]
            IN  fn(st1, d, el)
      [] ev.type = "end" ->
            LET r == IF st.current # NoElement
                     THEN fn(st, d, st.current)
                     ELSE << st, d >>
                n == Len(st.stack)
            IN  << [r[1] EXCEPT !.current = IF n = 0 THEN NoElement ELSE st.stack[n],
                                !.stack = IF n = 0 THEN << >> ELSE SubSeq(@, 1, n - 1)],
                   r[2] >>
      [] ev.type = "text" ->
            IF st.current # NoElement
            THEN LET el == [st.current EXCEPT !.content = Append(@, ev.content)]
                 IN  fn([st EXCEPT !.current = el], d, el)
            ELSE << st, d >>

\* The loop of handleChunk with "current = undefined" at an end event, the
\* parent left on the stack.
onEventParentNotPopped(st, d, ev) ==
    CASE ev.type = "start" ->
            LET el == StackElement(st.index, ev.name, ev.attributes, << >>, FALSE)
                st1 == [st EXCEPT !.stack = IF st.current # NoElement
                                            THEN Append(@, st.current) ELSE @,
                                  !.current = el,
                                  !.index = @ + 1]
            IN  fn(st1, d, el)
      [] ev.type = "end" ->
            LET r == IF st.current # NoElement
                     THEN fn(st, d, [st.current EXCEPT !.done = TRUE])
                     ELSE << st, d >>
            IN  << [r[1] EXCEPT !.current = NoElement], r[2] >>
      [] ev.type = "text" ->
            IF st.current # NoElement
            THEN LET el == [st.current EXCEPT !.content = Append(@, ev.content)]
                 IN  fn([st EXCEPT !.current = el], d, el)
            ELSE << st, d >>

\* The loop of handleChunk with "index: ++index" for "index: index++".
onEventPreIncrement(st, d, ev) ==
    CASE ev.type = "start" ->
            LET el == StackElement(st.index + 1, ev.name, ev.attributes, << >>, FALSE)
                st1 == [st EXCEPT !.stack = IF st.current # NoElement
                                            THEN Append(@, st.current) ELSE @,
                                  !.current = el,
                                  !.index = @ + 1]
            IN  fn(st1, d, el)
      [] ev.type = "end" ->
            LET r == IF st.current # NoElement
                     THEN fn(st, d, [st.current EXCEPT !.done = TRUE])
                     ELSE << st, d >>
                n == Len(st.stack)
            IN  << [r[1] EXCEPT !.current = IF n = 0 THEN NoElement ELSE st.stack[n],
                                !.stack = IF n = 0 THEN << >> ELSE SubSeq(@, 1, n - 1)],
                   r[2] >>
      [] ev.type = "text" ->
            IF st.current # NoElement
            THEN LET el == [st.current EXCEPT !.content = Append(@, ev.content)]
                 IN  fn([st EXCEPT !.current = el], d, el)
            ELSE << st, d >>

\* One iteration of the loop of handleChunk, on one parser event.
onEvent(st, d, ev) ==
    CASE ev.type = "start" ->
            LET el == StackElement(st.index, ev.name, ev.attributes, << >>, FALSE)
                st1 == [st EXCEPT !.stack = IF st.current # NoElement
                                            THEN Append(@, st.current) ELSE @,
                                  !.current = el,
                                  !.index = @ + 1]
            IN  fn(st1, d, el)
      [] ev.type = "end" ->
            LET r == IF st.current # NoElement
                     THEN fn(st, d, [st.current EXCEPT !.done = TRUE])
                     ELSE << st, d >>
                n == Len(st.stack)
            IN  << [r[1] EXCEPT !.current = IF n = 0 THEN NoElement ELSE st.stack[n],
                                !.stack = IF n = 0 THEN << >> ELSE SubSeq(@, 1, n - 1)],
                   r[2] >>
      [] ev.type = "text" ->
            IF st.current # NoElement
            THEN LET el == [st.current EXCEPT !.content = Append(@, ev.content)]
                 IN  fn([st EXCEPT !.current = el], d, el)
            ELSE << st, d >>

RECURSIVE onEvents(_, _, _)
onEvents(st, d, evs) ==
    IF evs = << >> THEN << st, d >>
    ELSE LET r == onEvent(st, d, Head(evs))
         IN  onEvents(r[1], r[2], Tail(evs))

\* handleChunk(chunk): the parser takes the chunk and every event it yields
\* is handled before handleChunk returns.
handleChunk(st, d, chunk) ==
    LET p == xmlStreamParser(defaultTags, st.buf, chunk)
        r == onEvents([st EXCEPT !.buf = p.buf, !.pos = @ + Len(chunk)], d, p.events)
    IN  r

\* ------------------------------------------------- background collaborators
\* prepareActionCall({call, actions}): the action the call's name resolves
\* to, "" (undefined) when no action of that name is registered.
prepareActionCall(call) == IF call.name \in Registered THEN call.name ELSE ""

\* How the promise of handleActionCall({call, action}) settles: the handler
\* of "act" returns, the handler of "bad" throws, and there is no handler to
\* run when the action is undefined.
handleActionCall(call, action) == IF action = "act" THEN "fulfilled" ELSE "rejected"

\* handleOutput({outputRef}): the refs of the output and the next unused id.
\* An output of type "one" answers with one ref, the ref of the element; an
\* output of type "many" answers with an array of two refs, each with an id
\* of its own and the timestamp of the moment it is made.
handleOutput(outputRef, nextId, now) ==
    IF outputRef.type = "many"
    THEN [refs |-> << [outputRef EXCEPT !.id = nextId, !.timestamp = now],
                      [outputRef EXCEPT !.id = nextId + 1, !.timestamp = now] >>,
          nextId |-> nextId + 2]
    ELSE [refs |-> << outputRef >>, nextId |-> nextId]

\* ------------------------------------------------------------------- state
VARIABLES doc, stream, disp

vars == << doc, stream, disp >>

Sessions == DOMAIN stream

Init ==
    /\ doc \in Docs
    /\ \E i \in 0..MaxInitialIndex : stream = [s \in {1} |-> InitStream(i)]
    /\ \E g \in BOOLEAN : disp = [s \in {1} |-> InitDisp(g)]

\* ----------------------------------------------------------------- actions
\* The loop taking the next chunk only when no action execution is pending.
ChunkAfterExecutions(s, n) ==
    /\ ~ stream[s].returned
    /\ disp[s].prepQ = << >> /\ disp[s].running = {}
    /\ stream[s].pos + n <= Len(doc)
    /\ LET chunk == SubSeq(doc, stream[s].pos + 1, stream[s].pos + n)
           r == handleChunk(stream[s], disp[s], chunk)
       IN  /\ stream' = [stream EXCEPT ![s] = r[1]]
           /\ disp' = [disp EXCEPT ![s] = r[2]]
    /\ UNCHANGED doc

\* "for await (const chunk of textStream) handleChunk(chunk)": the next n
\* atoms of the document arrive as one chunk.
Chunk(s, n) ==
    /\ ~ stream[s].returned
    /\ stream[s].pos + n <= Len(doc)
    /\ LET chunk == SubSeq(doc, stream[s].pos + 1, stream[s].pos + n)
           r == handleChunk(stream[s], disp[s], chunk)
       IN  /\ stream' = [stream EXCEPT ![s] = r[1]]
           /\ disp' = [disp EXCEPT ![s] = r[2]]
    /\ UNCHANGED doc

\* The text stream has ended: parser.return() and handleStream returns.
Return(s) ==
    /\ ~ stream[s].returned
    /\ stream[s].pos = Len(doc)
    /\ stream' = [stream EXCEPT ![s].returned = TRUE,
                                ![s].awaited = Len(disp[s].actionCalls)]
    /\ UNCHANGED << doc, disp >>

\* handleActionCallStream after its await, without the look at the signal.
afterPrepareNoAbortCheck(d) ==
    LET call == Head(d.prepQ)
        action == prepareActionCall(call)
        d2 == pushLogStream([d EXCEPT !.prepQ = Tail(@)], call, TRUE)
    IN  [d2 EXCEPT !.actionCalls = Append(@, [callId |-> call.id, state |-> "pending"]),
                   !.running = @ \cup {[call |-> call, action |-> action]}]

\* handleActionCallStream after its await, starting the execution without
\* "pushLogStream(call, true)".
afterPrepareNoCommit(d) ==
    LET call == Head(d.prepQ)
        action == prepareActionCall(call)
        d1 == [d EXCEPT !.prepQ = Tail(@)]
    IN  IF d1.aborted THEN d1
        ELSE [d1 EXCEPT !.actionCalls = Append(@, [callId |-> call.id, state |-> "pending"]),
                        !.running = @ \cup {[call |-> call, action |-> action]}]

\* handleActionCallStream after "await prepareActionCall": nothing more if
\* the signal is aborted; else the call is committed and handleActionCall is
\* started, its promise pushed to actionCalls.
afterPrepare(d) ==
    LET call == Head(d.prepQ)
        action == prepareActionCall(call)
        d1 == [d EXCEPT !.prepQ = Tail(@)]
    IN  IF d1.aborted THEN d1
        ELSE LET d2 == pushLogStream(d1, call, TRUE)
             IN  [d2 EXCEPT !.actionCalls = Append(@, [callId |-> call.id, state |-> "pending"]),
                            !.running = @ \cup {[call |-> call, action |-> action]}]

Prepared(s) ==
    /\ disp[s].prepQ # << >>
    /\ disp' = [disp EXCEPT ![s] = afterPrepare(disp[s])]
    /\ UNCHANGED << doc, stream >>

\* The promise of a running handleActionCall settles.
Settle(s, e) ==
    /\ e \in disp[s].running
    /\ disp' = [disp EXCEPT ![s].running = @ \ {e},
                            ![s].settledQ = Append(@, [call |-> e.call,
                                 outcome |-> handleActionCall(e.call, e.action)]),
                            ![s].completed = Append(@, e.call.id)]
    /\ UNCHANGED << doc, stream >>

\* The promise without its ".catch": a rejection stays a rejection.
catchNothing(p, nextId) ==
    [outcome |-> p.outcome, res |-> ActionResult(nextId, p.call.id, p.call.name, FALSE)]

\* ".catch((err) => result)": a rejection becomes a result whose data is
\* {error: ...}; a result passes through.
catch(p, nextId) ==
    IF p.outcome = "rejected"
    THEN [outcome |-> "fulfilled", res |-> ActionResult(nextId, p.call.id, p.call.name, TRUE)]
    ELSE [outcome |-> "fulfilled", res |-> ActionResult(nextId, p.call.id, p.call.name, FALSE)]

SetState(entries, callId, state) ==
    [i \in DOMAIN entries |->
        IF entries[i].callId = callId THEN [entries[i] EXCEPT !.state = state] ELSE entries[i]]

\* ".then" without its pushLogStream: the result is returned, not committed.
afterSettleNoPush(d) ==
    LET p == Head(d.settledQ)
    IN  [d EXCEPT !.settledQ = Tail(@), !.nextId = @ + 1,
                  !.actionCalls = SetState(@, p.call.id, "fulfilled")]

\* The reactions run for the execution that settled last, not first.
afterSettleLifo(d) ==
    LET n == Len(d.settledQ)
        p == d.settledQ[n]
        c == catch(p, d.nextId)
        d2 == pushLogStream([d EXCEPT !.settledQ = SubSeq(@, 1, n - 1), !.nextId = @ + 1],
                            c.res, TRUE)
    IN  [d2 EXCEPT !.actionCalls = SetState(@, p.call.id, "fulfilled")]

\* ".then((res) => { pushLogStream(res, true); return res })", on the promise
\* ".catch" returned for the oldest settled execution.  The result has the
\* timestamp of the moment it is made.
afterSettle(d) ==
    LET p == Head(d.settledQ)
        c == catch(p, d.nextId)
        d1 == [d EXCEPT !.settledQ = Tail(@)]
    IN  IF c.outcome = "rejected"
        THEN [d1 EXCEPT !.actionCalls = SetState(@, p.call.id, "rejected")]
        ELSE LET d2 == pushLogStream([d1 EXCEPT !.nextId = @ + 1], At(c.res, d.now), TRUE)
             IN  [d2 EXCEPT !.actionCalls = SetState(@, p.call.id, "fulfilled")]

Deliver(s) ==
    /\ disp[s].settledQ # << >>
    /\ disp' = [disp EXCEPT ![s] = afterSettle(disp[s])]
    /\ UNCHANGED << doc, stream >>

\* The loop of handleOutputStream without "workingMemory.outputs.push(ref)".
RECURSIVE pushRefsChainOnly(_, _)
pushRefsChainOnly(d, refs) ==
    IF refs = << >> THEN d
    ELSE pushRefsChainOnly(pushLogStream(d, Head(refs), TRUE), Tail(refs))

\* The loop of handleOutputStream over the refs of an output.
RECURSIVE pushRefs(_, _)
pushRefs(d, refs) ==
    IF refs = << >> THEN d
    ELSE pushRefs(pushLogStream([d EXCEPT !.outputs = Append(@, Head(refs))], Head(refs), TRUE),
                  Tail(refs))

\* handleOutputStream after "await handleOutput".
afterOutput(d) ==
    LET o == handleOutput(Head(d.outQ), d.nextId, d.now)
    IN  pushRefs([d EXCEPT !.outQ = Tail(@), !.nextId = o.nextId], o.refs)

OutputHandled(s) ==
    /\ disp[s].outQ # << >>
    /\ disp' = [disp EXCEPT ![s] = afterOutput(disp[s])]
    /\ UNCHANGED << doc, stream >>

\* How the promise of generateEpisode(...) settles.
generateEpisode(ok) == IF ok THEN "fulfilled" ELSE "failed"

\* The promise of an episode settles; ".catch((error) => logger.error(...))"
\* logs a failure and nothing else.
EpisodeSettles(s, k, ok) ==
    /\ k \in DOMAIN disp[s].episodes
    /\ disp[s].episodes[k].state = "pending"
    /\ disp' = [disp EXCEPT ![s].episodes[k].state = generateEpisode(ok)]
    /\ UNCHANGED << doc, stream >>

\* Time passes: Date.now() reads a later value from now on.
Tick(s) ==
    /\ disp[s].now < MaxClock
    /\ disp' = [disp EXCEPT ![s].now = @ + 1]
    /\ UNCHANGED << doc, stream >>

\* The owner of the signal aborts.
Abort(s) ==
    /\ ~ disp[s].aborted
    /\ disp' = [disp EXCEPT ![s].aborted = TRUE,
                            ![s].chainAtAbort = Len(disp[s].chain),
                            ![s].indexAtAbort = stream[s].index,
                            ![s].fnAtAbort = Len(stream[s].fn)]
    /\ UNCHANGED << doc, stream >>

ChunkStep == \E s \in Sessions, n \in 1..MaxChunk : Chunk(s, n)
ReturnStep == \E s \in Sessions : Return(s)
PreparedStep == \E s \in Sessions : Prepared(s)
SettleStep == \E s \in Sessions : \E e \in disp[s].running : Settle(s, e)
DeliverStep == \E s \in Sessions : Deliver(s)
OutputStep == \E s \in Sessions : OutputHandled(s)
AbortStep == \E s \in Sessions : Abort(s)
TickStep == \E s \in Sessions : Tick(s)
EpisodeStep ==
    \E s \in Sessions : \E k \in DOMAIN disp[s].episodes, ok \in BOOLEAN : EpisodeSettles(s, k, ok)

Next ==
    \/ ChunkStep
    \/ ReturnStep
    \/ PreparedStep
    \/ SettleStep
    \/ DeliverStep
    \/ OutputStep
    \/ AbortStep
    \/ EpisodeStep

Spec == Init /\ [][Next]_vars

\* Runs over documents of think and action_call elements in which the text
\* stream is read to its end: the loop of handleStream takes every chunk
\* that arrives and handleStream returns after the last.  Nothing is assumed
\* of the background work: a prepareActionCall or an action handler may
\* never complete.
LiveTemplates == {1, 2, 3, 11}

LiveDocs ==
    { Concat([i \in DOMAIN f |-> Templates[f[i]]]) :
        f \in UNION { [1..n -> LiveTemplates] : n \in 1..MaxElems } }

LiveInit ==
    /\ doc \in LiveDocs
    /\ stream = [s \in {1} |-> InitStream(0)]
    /\ \E g \in BOOLEAN : disp = [s \in {1} |-> InitDisp(g)]

LiveNext ==
    \/ ChunkStep
    \/ ReturnStep
    \/ PreparedStep
    \/ SettleStep
    \/ DeliverStep
    \/ EpisodeStep
    \/ AbortStep

LiveSpec ==
    LiveInit /\ [][LiveNext]_vars /\ WF_vars(ChunkStep) /\ WF_vars(ReturnStep)

\* Runs in which time passes between the steps, so that two readings of
\* Date.now() may differ (in the other specifications the clock stands
\* still: the timestamps play no part in what is checked there).  The
\* documents are made of a think, an action_call and outputs.
ClockTemplates == {1, 2, 5, 6}

ClockDocs ==
    { Concat([i \in DOMAIN f |-> Templates[f[i]]]) :
        f \in UNION { [1..n -> ClockTemplates] : n \in 1..MaxElems } }

ClockInit ==
    /\ doc \in ClockDocs
    /\ \E i \in 0..MaxInitialIndex : stream = [s \in {1} |-> InitStream(i)]
    /\ disp = [s \in {1} |-> InitDisp(FALSE)]

ClockNext ==
    \/ ChunkStep
    \/ ReturnStep
    \/ PreparedStep
    \/ SettleStep
    \/ DeliverStep
    \/ OutputStep
    \/ AbortStep
    \/ TickStep

ClockSpec == ClockInit /\ [][ClockNext]_vars

\* Two runs of the same well-formed document, for the comparison of chunk
\* splittings: session 1 takes the document in chunks of any sizes, session 2
\* takes it as one chunk; the signal is never aborted.
PairTemplates == {1, 2, 5}

PairDocs ==
    { Concat([i \in DOMAIN f |-> Templates[f[i]]]) :
        f \in UNION { [1..n -> PairTemplates] : n \in 1..MaxElems } }

PairInit ==
    /\ doc \in PairDocs
    /\ stream = [s \in {1, 2} |-> InitStream(0)]
    /\ disp = [s \in {1, 2} |-> InitDisp(TRUE)]

SplitStep == \E n \in 1..MaxChunk : Chunk(1, n)
WholeStep == Chunk(2, Len(doc))

PairNext ==
    \/ SplitStep
    \/ WholeStep
    \/ ReturnStep
    \/ PreparedStep
    \/ SettleStep
    \/ DeliverStep
    \/ OutputStep
    \/ EpisodeStep

PairSpec == PairInit /\ [][PairNext]_vars

\* ------------------------------------------------------------- vocabulary
\* The position of the record with this id in a sequence of records, 0 if
\* there is none.
PosOf(logs, id) ==
    IF \E p \in DOMAIN logs : logs[p].id = id
    THEN CHOOSE p \in DOMAIN logs : logs[p].id = id
    ELSE 0

Count(logs, id) == Cardinality({p \in DOMAIN logs : logs[p].id = id})

NoDuplicateIds(logs) == \A p, q \in DOMAIN logs : logs[p].id = logs[q].id => p = q

OfRef(logs, ref) == SelectSeq(logs, LAMBDA l : l.ref = ref)

\* The positions in the callback log at which an element was reported done.
Closings(s) == {k \in DOMAIN stream[s].fn : stream[s].fn[k].done}

\* The id of the record of the element with this index, 0 if the handler
\* made none.
IdOf(s, index) ==
    IF index \in DOMAIN disp[s].logsByIndex THEN disp[s].logsByIndex[index].id ELSE 0

IsThink(el) == el.tag \in {"think", "reasoning"}
IsCall(el) == el.tag = "action_call"
IsTypedOutput(el) == el.tag = "output" /\ el.attributes.type # ""

\* Nothing is suspended or running in the background of the session.
Quiescent(s) ==
    /\ disp[s].prepQ = << >>
    /\ disp[s].outQ = << >>
    /\ disp[s].running = {}
    /\ disp[s].settledQ = << >>

\* ------------------------------------------------------------------ claims

\* C1: for two elements with tag think, reasoning or action_call that both
\* close in an uncancelled stream, the records are in the chain in the order
\* in which the elements closed: when the record of the later closed one is
\* in the chain, the record of the earlier closed one is there before it.
C1_PositionalOrder ==
    \A s \in Sessions :
        ~ disp[s].aborted =>
            \A k1, k2 \in Closings(s) :
                LET e1 == stream[s].fn[k1]
                    e2 == stream[s].fn[k2]
                    p1 == PosOf(disp[s].chain, IdOf(s, e1.index))
                    p2 == PosOf(disp[s].chain, IdOf(s, e2.index))
                IN  (k1 < k2 /\ (IsThink(e1) \/ IsCall(e1)) /\ (IsThink(e2) \/ IsCall(e2))
                        /\ p2 > 0)
                    => (p1 > 0 /\ p1 < p2)

\* What a record says, without its id.
Said(l) == [ref |-> l.ref, name |-> l.name, type |-> l.type, content |-> l.content,
            data |-> l.data]

\* The records of the chain that come from elements (thoughts, calls and
\* output refs), without their ids.
ElementRecords(logs) ==
    LET els == SelectSeq(logs, LAMBDA l : l.ref # "action_result")
    IN  [p \in DOMAIN els |-> Said(els[p])]

Finished(s) == stream[s].returned /\ Quiescent(s)

\* C2: every way of splitting a well-formed document into chunks yields the
\* same final sequence of committed records: once both runs of PairSpec have
\* returned and all their pending work has completed, their chains hold the
\* same element records in the same order.  (The results of the actions are
\* left out of the comparison: their places depend on when the executions
\* complete.  The claim, which compares the whole chains, implies this.)
C2_ChunkBoundaryInvariance ==
    (Sessions = {1, 2} /\ Finished(1) /\ Finished(2))
        => ElementRecords(disp[1].chain) = ElementRecords(disp[2].chain)

Ids(logs) == {logs[p].id : p \in DOMAIN logs}

\* The elements that have been reported done, by kind.
ClosedEls(s) == {stream[s].fn[k] : k \in Closings(s)}

\* The indices of the elements created so far that have not closed.
OpenIndices(s) ==
    {stream[s].fn[k].index : k \in DOMAIN stream[s].fn} \ {e.index : e \in ClosedEls(s)}

\* The closed typed outputs whose handleOutput has resolved.
HandledOutputs(s, type) ==
    {e \in ClosedEls(s) : /\ IsTypedOutput(e) /\ e.attributes.type = type
                          /\ IdOf(s, e.index) # 0
                          /\ IdOf(s, e.index) \notin Ids(disp[s].outQ)}

NoDuplicates(s) ==
    /\ NoDuplicateIds(disp[s].chain)
    /\ NoDuplicateIds(disp[s].thoughts)
    /\ NoDuplicateIds(disp[s].calls)
    /\ NoDuplicateIds(disp[s].results)
    /\ NoDuplicateIds(disp[s].outputs)

NewFn(s) == SubSeq(stream'[s].fn, Len(stream[s].fn) + 1, Len(stream'[s].fn))

\* The handler notifies onLogStream of an update of such an element.
Dispatched(el) == IsThink(el) \/ IsCall(el) \/ IsTypedOutput(el)

WorkingMemoryOf(d) == << d.thoughts, d.calls, d.results, d.outputs >>

\* C4: a handleChunk in which every callback invocation has done=false
\* leaves the chain and the four working memory sequences unchanged, and
\* (the signal not aborted) notifies onLogStream once for each update of a
\* think, reasoning, action_call or typed output element, the last
\* notification being that of the last such update with done=false.
C4_PartialNeverCommits ==
    [][\A s \in Sessions :
        LET new == NewFn(s)
            upd == SelectSeq(new, Dispatched)
        IN  (new # << >> /\ \A k \in DOMAIN new : ~ new[k].done) =>
                /\ disp'[s].chain = disp[s].chain
                /\ WorkingMemoryOf(disp'[s]) = WorkingMemoryOf(disp[s])
                /\ ~ disp[s].aborted =>
                     /\ disp'[s].logTick = (disp[s].logTick + Len(upd)) % 2
                     /\ upd # << >> =>
                          disp'[s].lastLog =
                              [id |-> disp'[s].logsByIndex[upd[Len(upd)].index].id,
                               done |-> FALSE]
      ]_vars

\* C4, witness: the handler has been notified of partial updates of an
\* element with text and nothing has been committed.
C4_Witness ==
    \E s \in Sessions :
        /\ stream[s].current # NoElement
        /\ Dispatched(stream[s].current)
        /\ stream[s].current.content # << >>
        /\ disp[s].lastLog = [id |-> IdOf(s, stream[s].current.index), done |-> FALSE]
        /\ disp[s].chain = << >>

\* The results in a sequence of records that answer the call with this id.
ResultsOf(logs, callId) ==
    {p \in DOMAIN logs : logs[p].ref = "action_result" /\ logs[p].callId = callId}

NoRejection(s) ==
    \A k \in DOMAIN disp[s].actionCalls : disp[s].actionCalls[k].state # "rejected"

\* The closed action_call elements whose name no action is registered under.
UnknownCalls(s) ==
    {e \in ClosedEls(s) : IsCall(e) /\ e.attributes.name \notin Registered /\ IdOf(s, e.index) # 0}

CallOf(s, callId) == disp[s].chain[PosOf(disp[s].chain, callId)]

InFlight(s) ==
    {e.call.id : e \in disp[s].running} \cup Ids([k \in DOMAIN disp[s].settledQ |-> disp[s].settledQ[k].call])

\* C6: for every execution handleActionCallStream has started (every promise
\* in actionCalls) there is no result while the execution is running or its
\* reactions have not run, and exactly one ActionResult in the chain and in
\* results once they have: its callId and name are those of the call, its
\* data is {error: ...} exactly when the handler failed; no promise is
\* rejected, and every result answers a started execution.
C6_EveryExecutionOneResult ==
    \A s \in Sessions :
        /\ NoRejection(s)
        /\ \A k \in DOMAIN disp[s].actionCalls :
            LET a == disp[s].actionCalls[k]
                rs == ResultsOf(disp[s].chain, a.callId)
            IN  /\ Count(disp[s].chain, a.callId) = 1
                /\ (a.state = "pending") = (a.callId \in InFlight(s))
                /\ Cardinality(rs) = (IF a.state = "pending" THEN 0 ELSE 1)
                /\ Cardinality(ResultsOf(disp[s].results, a.callId)) = Cardinality(rs)
                /\ \A p \in rs :
                    /\ disp[s].chain[p].name = CallOf(s, a.callId).name
                    /\ disp[s].chain[p].error = (CallOf(s, a.callId).name # "act")
        /\ \A p \in DOMAIN disp[s].chain :
                disp[s].chain[p].ref = "action_result"
                    => \E k \in DOMAIN disp[s].actionCalls :
                            disp[s].actionCalls[k].callId = disp[s].chain[p].callId

\* C6, witness: the handler of "bad" has failed, its error result is in the
\* chain, and an element that closed afterwards has been committed behind it.
C6_Witness ==
    \E s \in Sessions :
        \E p, q \in DOMAIN disp[s].chain :
            /\ p < q
            /\ disp[s].chain[p].ref = "action_result"
            /\ disp[s].chain[p].name = "bad"
            /\ disp[s].chain[p].error
            /\ disp[s].chain[q].ref = "thought"

CallIds(logs) == [p \in DOMAIN logs |-> logs[p].callId]

\* C7: the ActionResults are in the chain (and in results) in the order in
\* which the executions completed: their callIds are the completed calls, in
\* the order of completion, up to those whose reactions have not run yet.
C7_ResultsInCompletionOrder ==
    \A s \in Sessions :
        LET rs == CallIds(OfRef(disp[s].chain, "action_result"))
        IN  /\ Len(rs) <= Len(disp[s].completed)
            /\ rs = SubSeq(disp[s].completed, 1, Len(rs))
            /\ CallIds(disp[s].results) = rs

\* C7, witness: two executions were pending together, the later started one
\* completed first, and its result is earlier in the chain than the result
\* of the earlier started one.
C7_Witness ==
    \E s \in Sessions :
        \E p, q \in DOMAIN disp[s].chain :
            /\ p < q
            /\ disp[s].chain[p].ref = "action_result"
            /\ disp[s].chain[q].ref = "action_result"
            /\ PosOf(disp[s].chain, disp[s].chain[q].callId)
                    < PosOf(disp[s].chain, disp[s].chain[p].callId)
            /\ PosOf(disp[s].chain, disp[s].chain[p].callId) < p

\* The indices of the elements handleStream has created.
Created(s) == {stream[s].fn[k].index : k \in DOMAIN stream[s].fn}

\* Every promise of actionCalls that is no longer pending has its result in
\* the chain, and a pending one is still running or waits for its reactions.
ExecutionsDeliver(s) ==
    \A k \in DOMAIN disp[s].actionCalls :
        LET a == disp[s].actionCalls[k]
        IN  IF a.state = "pending" THEN a.callId \in InFlight(s)
            ELSE Cardinality(ResultsOf(disp[s].chain, a.callId)) = 1

Started(s) == {disp[s].actionCalls[k].callId : k \in DOMAIN disp[s].actionCalls}

\* C9: no execution starts after cancellation: every call that is running,
\* has completed or has a result in the chain is a started one, and once the
\* signal is aborted every started call is one that was committed, and its
\* execution started, before the abort.  A call whose resolution ended after
\* the abort is in none of these, so its handler is never invoked and it
\* never has a result.
C9_NoExecutionAfterAbort ==
    \A s \in Sessions :
        /\ InFlight(s) \subseteq Started(s)
        /\ \A k \in DOMAIN disp[s].completed : disp[s].completed[k] \in Started(s)
        /\ \A p \in DOMAIN disp[s].chain :
                disp[s].chain[p].ref = "action_result" => disp[s].chain[p].callId \in Started(s)
        /\ disp[s].aborted =>
                \A id \in Started(s) : PosOf(disp[s].chain, id) \in 1..disp[s].chainAtAbort

\* C9, witness: the signal was aborted while prepareActionCall was awaited
\* for a closed action_call element; the resolution has ended, and the call
\* has neither been committed nor started.
C9_Witness ==
    \E s \in Sessions :
        /\ disp[s].aborted
        /\ Quiescent(s)
        /\ \E k \in Closings(s) :
                /\ k <= disp[s].fnAtAbort
                /\ IsCall(stream[s].fn[k])
                /\ IdOf(s, stream[s].fn[k].index) # 0
                /\ Count(disp[s].chain, IdOf(s, stream[s].fn[k].index)) = 0
                /\ IdOf(s, stream[s].fn[k].index) \notin Started(s)

\* C10: when handleStream has returned (and the signal is not aborted),
\* actionCalls holds a promise for every action_call element that closed,
\* and once every promise that was in actionCalls at the return has settled
\* the chain holds an ActionResult for every ActionCall in it.
C10_PendingAwaitable ==
    \A s \in Sessions :
        (stream[s].returned /\ ~ disp[s].aborted) =>
            LET awaited == SubSeq(disp[s].actionCalls, 1, stream[s].awaited)
            IN  /\ \A e \in ClosedEls(s) :
                        IsCall(e) => \E k \in DOMAIN awaited : awaited[k].callId = IdOf(s, e.index)
                /\ (\A k \in DOMAIN awaited : awaited[k].state # "pending") =>
                        \A p \in DOMAIN disp[s].chain :
                            disp[s].chain[p].ref = "action_call"
                                => ResultsOf(disp[s].chain, disp[s].chain[p].id) # {}

\* The closed output elements without a type attribute.
UntypedOutputs(s) ==
    {e \in ClosedEls(s) : e.tag = "output" /\ e.attributes.type = ""}

\* The number of "Missing output type attribute" errors logged for the
\* element with this index.
ErrorsOf(s, index) ==
    Cardinality({k \in DOMAIN disp[s].errors : disp[s].errors[k] = index})

\* No record of the element is in the chain or in outputs, and the output
\* pipeline (handleOutput) has not been and will not be invoked for it.
NoOutputRecord(s, e) ==
    /\ Count(disp[s].chain, IdOf(s, e.index)) = 0
    /\ Count(disp[s].outputs, IdOf(s, e.index)) = 0
    /\ IdOf(s, e.index) \notin Ids(disp[s].outQ)

\* C11: an output element without a type attribute that has closed in an
\* uncancelled session has no record in the chain or in outputs, the output
\* pipeline was never invoked for it (so the session has no output record
\* that is not the record of a typed output), and exactly one error has been
\* logged for the element.
C11_UntypedOutputOneError ==
    \A s \in Sessions :
        ~ disp[s].aborted =>
            \A e \in UntypedOutputs(s) :
                /\ NoOutputRecord(s, e)
                /\ ErrorsOf(s, e.index) = 1

\* What holds of such an element: no record and no invocation of the
\* pipeline, cancelled or not; the error is logged at every update of the
\* element, so at least twice (at its start and at its end).
C11_UntypedOutputDropped ==
    \A s \in Sessions :
        \A e \in UntypedOutputs(s) :
            /\ NoOutputRecord(s, e)
            /\ ~ disp[s].aborted => ErrorsOf(s, e.index) >= 2

\* The callback invocation that reports the creation of an element: a text
\* update has text and the last update has done=true.
IsCreation(el) == ~ el.done /\ el.content = << >>

Last(seq) == seq[Len(seq)]

\* The indices of the elements that are open after the callback invocations
\* of a log, innermost last: a creation opens an element, a done=true
\* update closes the innermost open one.
RECURSIVE OpenAfter(_)
OpenAfter(log) ==
    IF log = << >> THEN << >>
    ELSE LET before == OpenAfter(SubSeq(log, 1, Len(log) - 1))
             el == Last(log)
         IN  IF IsCreation(el) THEN Append(before, el.index)
             ELSE IF el.done /\ before # << >> THEN SubSeq(before, 1, Len(before) - 1)
             ELSE before

\* The creation invocations of a session, in order.
Creations(s) == SelectSeq(stream[s].fn, IsCreation)

\* C12: in one handleStream session the k-th element created has the index
\* initialIndex + k - 1 (so the indices start at the initial index, strictly
\* increase, and no two elements share one), and every later invocation for
\* an element (a text update, the done=true update) is for the innermost
\* open element and carries the index, the tag and the attributes that
\* element was created with.
C12_IndexStable ==
    \A s \in Sessions :
        LET log == stream[s].fn
            cs == Creations(s)
            i0 == stream[s].initialIndex
        IN  /\ \A k \in DOMAIN cs : cs[k].index = i0 + k - 1
            /\ stream[s].index = i0 + Len(cs)
            /\ \A k \in DOMAIN log :
                    ~ IsCreation(log[k]) =>
                        LET open == OpenAfter(SubSeq(log, 1, k - 1))
                        IN  /\ open # << >>
                            /\ log[k].index = Last(open)
                            /\ log[k].index - i0 + 1 \in DOMAIN cs
                            /\ log[k].tag = cs[log[k].index - i0 + 1].tag
                            /\ log[k].attributes = cs[log[k].index - i0 + 1].attributes

\* C12, witness: a session started at initial index 1 whose first element
\* got a text update and its done=true update, both with index 1, after a
\* nested element with index 2 was created and closed.
C12_Witness ==
    \E s \in Sessions :
        /\ stream[s].initialIndex = 1
        /\ \E k1, k2, k3, k4 \in DOMAIN stream[s].fn :
                /\ k1 < k2 /\ k2 < k3 /\ k3 < k4
                /\ IsCreation(stream[s].fn[k1]) /\ stream[s].fn[k1].index = 2
                /\ stream[s].fn[k2].done /\ stream[s].fn[k2].index = 2
                /\ ~ stream[s].fn[k3].done /\ stream[s].fn[k3].index = 1
                /\ stream[s].fn[k3].content # << >>
                /\ stream[s].fn[k4].done /\ stream[s].fn[k4].index = 1

\* The positions of the callback log at which the element with this index
\* was reported.
InvocationsOf(s, index) == {k \in DOMAIN stream[s].fn : stream[s].fn[k].index = index}

SetMin(S) == CHOOSE x \in S : \A y \in S : x <= y
SetMax(S) == CHOOSE x \in S : \A y \in S : x >= y

\* The element got its creation invocation first and its done=true
\* invocation last, with only done=false invocations in between.
CreationToDone(s, index) ==
    LET ks == InvocationsOf(s, index)
    IN  /\ Cardinality(ks) >= 2
        /\ IsCreation(stream[s].fn[SetMin(ks)])
        /\ \A k \in ks : stream[s].fn[k].done <=> k = SetMax(ks)

\* C13, as claimed: when handleStream has returned, every element it created
\* has had at least two callback invocations, the first at its creation with
\* done=false, the last with done=true, and only done=false ones in between.
C13_EveryElementDone ==
    \A s \in Sessions :
        stream[s].returned => \A i \in Created(s) : CreationToDone(s, i)

\* The indices of the elements that are open: the stack and current.
StillOpen(s) ==
    {stream[s].stack[k].index : k \in DOMAIN stream[s].stack}
        \cup (IF stream[s].current # NoElement THEN {stream[s].current.index} ELSE {})

\* C13, amended: every element whose end event has been handled has had at
\* least two callback invocations, the first at its creation with
\* done=false, the last with done=true, only done=false ones in between and
\* none after; an element whose end event has not arrived (also one left
\* unterminated when handleStream returns) has had its creation invocation
\* first and only done=false invocations.
C13_ClosedElementDone ==
    \A s \in Sessions :
        \A i \in Created(s) :
            IF i \in StillOpen(s)
            THEN /\ IsCreation(stream[s].fn[SetMin(InvocationsOf(s, i))])
                 /\ \A k \in InvocationsOf(s, i) : ~ stream[s].fn[k].done
            ELSE CreationToDone(s, i)

\* C13, witness: handleStream has returned; one element got its creation, a
\* text update and its done=true update, and another one, unterminated, got
\* its creation and a text update only.
C13_Witness ==
    \E s \in Sessions :
        /\ stream[s].returned
        /\ \E i \in Created(s) \ StillOpen(s) : Cardinality(InvocationsOf(s, i)) >= 3
        /\ \E i \in StillOpen(s) : Cardinality(InvocationsOf(s, i)) >= 2

\* What generateEpisode was invoked with, without the state of its promise.
Invoked(eps) ==
    [k \in DOMAIN eps |->
        [thought |-> eps[k].thought, call |-> eps[k].call, result |-> eps[k].result]]

\* A step of the session, as to episode capture, when capture is enabled or
\* not: a step that commits an ActionResult invokes generateEpisode once,
\* with the last thought and the last call of the working memory and the
\* committed result, if capture is enabled and the working memory holds a
\* thought and a call, and does not invoke it otherwise; a step that
\* commits no ActionResult does not invoke it; a step in which the promise
\* of an episode settles, by failing or not, leaves the chain and the
\* working memory unchanged.
EpisodeAtCommit(s, enabled) ==
    LET d == disp[s]
        e == disp'[s]
    IN  /\ Len(e.results) \in {Len(d.results), Len(d.results) + 1}
        /\ IF /\ Len(e.results) = Len(d.results) + 1
              /\ e.thoughts # << >> /\ e.calls # << >> /\ enabled
           THEN Invoked(e.episodes) =
                    Append(Invoked(d.episodes),
                           [thought |-> Last(e.thoughts).id, call |-> Last(e.calls).id,
                            result |-> Last(e.results).id])
           ELSE Invoked(e.episodes) = Invoked(d.episodes)
        /\ e.episodes # d.episodes /\ Invoked(e.episodes) = Invoked(d.episodes) =>
                /\ e.chain = d.chain
                /\ WorkingMemoryOf(e) = WorkingMemoryOf(d)

\* C14, as claimed: at each commit of an ActionResult episode capture is
\* invoked exactly once if the working memory holds at least one Thought and
\* one ActionCall, with the last thought, the last call and the committed
\* result; it is invoked on no other commit, and a failure of the capture
\* changes neither the chain nor the working memory.
C14_EpisodeWheneverThoughtAndCall ==
    [][\A s \in Sessions : EpisodeAtCommit(s, TRUE)]_vars

\* C14, amended: the same, the capture being invoked only if, besides, the
\* agent has memory generation switched on (agent.memory.generateMemories).
C14_EpisodeIfGenerateMemories ==
    [][\A s \in Sessions : EpisodeAtCommit(s, disp[s].generateMemories)]_vars

\* C14, witness: an episode was captured at the commit of a result with the
\* last call of the working memory, which is not the call the result
\* answers; the capture has failed, and the result is in the chain and in
\* results.
C14_Witness ==
    \E s \in Sessions :
        \E k \in DOMAIN disp[s].episodes :
            LET ep == disp[s].episodes[k]
                p == PosOf(disp[s].chain, ep.result)
            IN  /\ ep.state = "failed"
                /\ p > 0
                /\ disp[s].chain[p].ref = "action_result"
                /\ disp[s].chain[p].callId # ep.call
                /\ Count(disp[s].results, ep.result) = 1
                /\ Count(disp[s].thoughts, ep.thought) = 1
                /\ Count(disp[s].calls, ep.call) = 1

\* The elements of a document (or of the part of it consumed so far), read
\* off the text itself.  The k-th element is the one the k-th recognized
\* opening tag starts (k = 0, 1, ...); a recognized closing tag ends the
\* innermost open element, and nothing if none is open.  The text of an
\* element is the characters between its tags that are not inside a nested
\* element, a tag that is not recognized counting as the character "#".
\*   open     the ordinal and the text so far of each open element,
\*            innermost last
\*   n        the number of elements started
\*   closed   the ordinals of the ended elements, in the order they ended
\*   text     the texts of the ended elements, by ordinal
\* A tag whose second half has not arrived yet is not a tag yet.
RECURSIVE OwnText(_, _)
OwnText(atoms, r) ==
    IF atoms = << >> THEN r
    ELSE LET a == Head(atoms)
             top == Len(r.open)
             add(c) == IF top = 0 THEN r
                       ELSE [r EXCEPT !.open[top].text = Append(@, c)]
         IN  IF a.k = "tx" THEN OwnText(Tail(atoms), add(a.c))
             ELSE IF Len(atoms) = 1 THEN r
             ELSE IF a.tag \notin defaultTags THEN OwnText(Tail(Tail(atoms)), add("#"))
             ELSE IF a.close
                  THEN IF top = 0 THEN OwnText(Tail(Tail(atoms)), r)
                       ELSE OwnText(Tail(Tail(atoms)),
                                [r EXCEPT !.open = SubSeq(@, 1, top - 1),
                                          !.closed = Append(@, r.open[top].k),
                                          !.text = (r.open[top].k :> r.open[top].text) @@ @])
             ELSE OwnText(Tail(Tail(atoms)),
                      [r EXCEPT !.open = Append(@, [k |-> r.n, text |-> << >>]),
                                !.n = @ + 1])

ElementsOf(atoms) ==
    OwnText(atoms, [open |-> << >>, n |-> 0, closed |-> << >>, text |-> << >>])

TextOf(document) == ElementsOf(document).text

\* C15: every Thought in the chain (and in thoughts) is the record of a
\* think or reasoning element that has closed, there is one Thought for the
\* element, and its content is the text of the element in the document: the
\* fragments delivered to the element between its start and its end,
\* concatenated in order, whatever the chunks and the number of partial
\* updates, without the text of nested elements.
C15_ContentConcatenated ==
    \A s \in Sessions :
        /\ \A e \in ClosedEls(s) :
                /\ e.index - stream[s].initialIndex \in DOMAIN TextOf(doc)
                /\ Join(e.content) = TextOf(doc)[e.index - stream[s].initialIndex]
                /\ IsThink(e) =>
                        /\ Count(disp[s].chain, IdOf(s, e.index)) <= 1
                        /\ \A p \in DOMAIN disp[s].chain :
                                disp[s].chain[p].id = IdOf(s, e.index) =>
                                    /\ disp[s].chain[p].ref = "thought"
                                    /\ disp[s].chain[p].content =
                                            TextOf(doc)[e.index - stream[s].initialIndex]
        /\ \A p \in DOMAIN disp[s].chain :
                disp[s].chain[p].ref = "thought" =>
                    \E e \in ClosedEls(s) : IsThink(e) /\ IdOf(s, e.index) = disp[s].chain[p].id
        /\ disp[s].thoughts = OfRef(disp[s].chain, "thought")

\* C15, witness: a reasoning element got its text in three fragments, "a",
\* "#" and "a", around a nested think element with the text "b", and the
\* two Thoughts in the chain have the contents "b" and "a#a".
C15_Witness ==
    \E s \in Sessions :
        /\ \E e \in ClosedEls(s) :
                e.tag = "reasoning" /\ e.content = << << "a" >>, << "#" >>, << "a" >> >>
        /\ \E p, q \in DOMAIN disp[s].chain :
                /\ p < q
                /\ disp[s].chain[p].ref = "thought"
                /\ disp[s].chain[p].content = << "b" >>
                /\ disp[s].chain[q].ref = "thought"
                /\ disp[s].chain[q].content = << "a", "#", "a" >>

\* The open elements of handleStream, outermost first: the stack, then
\* current.
OpenElements(s) ==
    stream[s].stack \o (IF stream[s].current # NoElement THEN << stream[s].current >> ELSE << >>)

\* The indices of the done=true invocations of the callback, in order.
DoneIndices(s) ==
    LET ds == SelectSeq(stream[s].fn, LAMBDA el : el.done)
    IN  [k \in DOMAIN ds |-> ds[k].index]

\* C16: in every state of handleStream the stack followed by current is
\* exactly the elements that are open in the text consumed so far (started,
\* not ended), outermost first with their texts so far, with strictly
\* increasing indices and done=false, and the stack is empty when there is
\* no current; the done=true invocations are, in order, those of the
\* elements that ended in the text, each closing tag ending the innermost
\* open element and leaving its parent current; a closing tag with no open
\* element starts and ends nothing, invokes no callback and allocates no
\* index.
C16_StrictLifo ==
    \A s \in Sessions :
        LET els == ElementsOf(SubSeq(doc, 1, stream[s].pos))
            open == OpenElements(s)
            i0 == stream[s].initialIndex
        IN  /\ stream[s].current = NoElement => stream[s].stack = << >>
            /\ Len(open) = Len(els.open)
            /\ \A k \in DOMAIN open :
                    /\ open[k].index = i0 + els.open[k].k
                    /\ ~ open[k].done
                    /\ Join(open[k].content) = els.open[k].text
            /\ \A k \in 1..(Len(open) - 1) : open[k].index < open[k + 1].index
            /\ DoneIndices(s) = [k \in DOMAIN els.closed |-> i0 + els.closed[k]]
            /\ Len(Creations(s)) = els.n
            /\ stream[s].index = i0 + els.n

\* C16, witness: the text began with a closing tag while no element was
\* open; then an element was started with the initial index, a nested one
\* was started and ended, and the first is current again, with an empty
\* stack and the text that followed its child.
C16_Witness ==
    \E s \in Sessions :
        /\ doc[1] = Lt(TRUE, "think")
        /\ stream[s].current # NoElement
        /\ stream[s].current.index = stream[s].initialIndex
        /\ stream[s].stack = << >>
        /\ DoneIndices(s) = << stream[s].initialIndex + 1 >>
        /\ Len(stream[s].current.content) >= 2

\* The think and reasoning elements that closed after an action_call element
\* had closed (and been handed to handleActionCallStream).
ThinksAfterCall(s) ==
    {stream[s].fn[k2] : k2 \in {k \in Closings(s) :
        /\ IsThink(stream[s].fn[k])
        /\ \E k1 \in Closings(s) : k1 < k /\ IsCall(stream[s].fn[k1])}}

AllReturned == \A s \in Sessions : stream[s].returned

\* C17: the parse loop never waits on action execution.  Under LiveSpec,
\* where the chunks of the finite text keep arriving and no background work
\* need ever complete, handleStream eventually returns; and in every state
\* of an uncancelled session every think or reasoning element that closed
\* after an action_call has its Thought in the chain, whether the
\* resolution or the execution of the call is still pending or not.
C17_ParsingNeverWaits ==
    /\ [](\A s \in Sessions :
            ~ disp[s].aborted =>
                \A e \in ThinksAfterCall(s) : Count(disp[s].chain, IdOf(s, e.index)) = 1)
    /\ <>AllReturned

\* C17, witness: handleStream has returned while the execution of an action
\* is still running, and the Thought of an element that closed after the
\* action_call is in the chain, behind the call.
C17_Witness ==
    \E s \in Sessions :
        /\ stream[s].returned
        /\ \E r \in disp[s].running, e \in ThinksAfterCall(s) :
                /\ PosOf(disp[s].chain, r.call.id) > 0
                /\ PosOf(disp[s].chain, r.call.id) < PosOf(disp[s].chain, IdOf(s, e.index))

IsPrefix(a, b) == Len(a) <= Len(b) /\ SubSeq(b, 1, Len(a)) = a

\* Each working memory sequence is the records of its kind in the chain, in
\* the order of the chain.
Mirrors(d) ==
    /\ d.thoughts = OfRef(d.chain, "thought")
    /\ d.calls = OfRef(d.chain, "action_call")
    /\ d.results = OfRef(d.chain, "action_result")
    /\ d.outputs = OfRef(d.chain, "output")

\* C18: the working memory mirrors the chain: in every state thoughts,
\* calls, results and outputs are each the subsequence of the chain holding
\* the records of that kind, in the same order, and every step leaves the
\* chain and the four sequences as they were or appends to them (nothing is
\* removed, replaced or reordered).
C18_WorkingMemoryMirrorsChain ==
    /\ [](\A s \in Sessions : Mirrors(disp[s]))
    /\ [][\A s \in Sessions :
            /\ IsPrefix(disp[s].chain, disp'[s].chain)
            /\ IsPrefix(disp[s].thoughts, disp'[s].thoughts)
            /\ IsPrefix(disp[s].calls, disp'[s].calls)
            /\ IsPrefix(disp[s].results, disp'[s].results)
            /\ IsPrefix(disp[s].outputs, disp'[s].outputs)]_vars

\* C18, witness: the chain holds a Thought, an ActionCall, its ActionResult
\* and an OutputRef, and each working memory sequence holds its one.
C18_Witness ==
    \E s \in Sessions :
        /\ Len(disp[s].chain) = 4
        /\ Len(disp[s].thoughts) = 1 /\ Len(disp[s].calls) = 1
        /\ Len(disp[s].results) = 1 /\ Len(disp[s].outputs) = 1

\* The positions of the chain that hold an ActionResult.
ResultPositions(s) == {p \in DOMAIN disp[s].chain : disp[s].chain[p].ref = "action_result"}

\* C19: a call precedes its result: every ActionResult in the chain has,
\* earlier in the chain, the ActionCall of the action_call element whose
\* execution produced it (the record with the id the result's callId names,
\* which is the record of a closed action_call element and has the name of
\* the result), and calls is not empty when results is not.
C19_CallPrecedesResult ==
    \A s \in Sessions :
        /\ \A p \in ResultPositions(s) :
                \E q \in 1..(p - 1) :
                    /\ disp[s].chain[q].ref = "action_call"
                    /\ disp[s].chain[q].id = disp[s].chain[p].callId
                    /\ disp[s].chain[q].name = disp[s].chain[p].name
                    /\ \E e \in ClosedEls(s) :
                            IsCall(e) /\ IdOf(s, e.index) = disp[s].chain[q].id
        /\ disp[s].results # << >> => disp[s].calls # << >>

\* C19, witness: the results of two calls are in the chain, each behind its
\* call, the result of the second call before the result of the first.
C19_Witness ==
    \E s \in Sessions :
        \E p, q \in ResultPositions(s) :
            /\ p < q
            /\ PosOf(disp[s].chain, disp[s].chain[q].callId) > 0
            /\ PosOf(disp[s].chain, disp[s].chain[q].callId)
                    < PosOf(disp[s].chain, disp[s].chain[p].callId)

\* C20: once the signal is aborted nothing element-derived is committed any
\* more: every record appended to the chain after the abort is the
\* ActionResult of a call that was committed, and its execution started,
\* before the abort, and thoughts, calls and outputs hold what they held at
\* the abort (the records of their kind that were in the chain then), also
\* when the resolution of a call or the handling of an output that was
\* dispatched before the abort finishes after it.
C20_NoElementCommitAfterAbort ==
    \A s \in Sessions :
        disp[s].aborted =>
            LET before == SubSeq(disp[s].chain, 1, disp[s].chainAtAbort)
            IN  /\ \A p \in DOMAIN disp[s].chain :
                        p > disp[s].chainAtAbort =>
                            /\ disp[s].chain[p].ref = "action_result"
                            /\ PosOf(before, disp[s].chain[p].callId) > 0
                /\ disp[s].thoughts = OfRef(before, "thought")
                /\ disp[s].calls = OfRef(before, "action_call")
                /\ disp[s].outputs = OfRef(before, "output")

\* The callback invocations the handler processed: those made while the
\* signal was not aborted.
ProcessedFn(s) ==
    SubSeq(stream[s].fn, 1,
           IF disp[s].aborted THEN disp[s].fnAtAbort ELSE Len(stream[s].fn))

\* The identity getOrCreateRef fixed for the element with this index.
IdentityOf(s, index) ==
    [id |-> disp[s].logsByIndex[index].id, ref |-> disp[s].logsByIndex[index].ref,
     timestamp |-> disp[s].logsByIndex[index].timestamp]

Identity(u) == [id |-> u.id, ref |-> u.ref, timestamp |-> u.timestamp]

\* The partial updates carry the identities of their elements: the k-th
\* update with done=false is that of the k-th done=false invocation the
\* handler processed for a think, reasoning, action_call or typed output
\* element, and has the id, kind and timestamp fixed for its index.
PartialUpdatesKeyed(s) ==
    LET partial == SelectSeq(disp[s].updates, LAMBDA u : ~ u.done)
        els == SelectSeq(ProcessedFn(s), LAMBDA el : Dispatched(el) /\ ~ el.done)
    IN  /\ Len(partial) = Len(els)
        /\ \A k \in DOMAIN partial :
                /\ els[k].index \in DOMAIN disp[s].logsByIndex
                /\ Identity(partial[k]) = IdentityOf(s, els[k].index)

\* The final updates of these kinds carry the identity of a closed element
\* of the kind, and there is one final update at most for an identity.
FinalUpdatesKeyed(s, kinds) ==
    \A k \in DOMAIN disp[s].updates :
        LET u == disp[s].updates[k]
        IN  (u.done /\ u.ref \in kinds) =>
                /\ \E e \in ClosedEls(s) :
                        /\ e.index \in DOMAIN disp[s].logsByIndex
                        /\ Identity(u) = IdentityOf(s, e.index)
                /\ \A j \in DOMAIN disp[s].updates :
                        (disp[s].updates[j].done /\ disp[s].updates[j].id = u.id) => j = k

\* Different indices have different ids, and state.index is the largest
\* index the handler has processed while not cancelled, 0 if none.
IndexKeyed(s) ==
    /\ \A i, j \in DOMAIN disp[s].logsByIndex :
            disp[s].logsByIndex[i].id = disp[s].logsByIndex[j].id => i = j
    /\ disp[s].index = SetMax(disp[s].processed \cup {0})

\* A step changes no identity that is fixed and does not decrease
\* state.index.
IdentitiesKept(s) ==
    /\ \A i \in DOMAIN disp[s].logsByIndex :
            /\ i \in DOMAIN disp'[s].logsByIndex
            /\ disp'[s].logsByIndex[i] = disp[s].logsByIndex[i]
    /\ disp'[s].index >= disp[s].index

\* C21, as claimed: record identity is keyed by element index: every
\* update, partial or final, the handler emits for an element carries the
\* id, the timestamp and the kind fixed at the first update for its index;
\* different indices have different ids; state.index is the largest index
\* processed while not cancelled (0 if none) and never decreases.
C21_IdentityKeyedByIndex ==
    /\ [](\A s \in Sessions :
            /\ PartialUpdatesKeyed(s)
            /\ FinalUpdatesKeyed(s, {"thought", "action_call", "output"})
            /\ IndexKeyed(s))
    /\ [][\A s \in Sessions : IdentitiesKept(s)]_vars

\* C21, amended: the same for every partial update and for the final update
\* of a think, reasoning or action_call element; the final updates of an
\* output element are the refs handleOutput returned for it, which have the
\* kind output and need not have the id or the timestamp of the element.
C21_IdentityKeyedUpToOutputRefs ==
    /\ [](\A s \in Sessions :
            /\ PartialUpdatesKeyed(s)
            /\ FinalUpdatesKeyed(s, {"thought", "action_call"})
            /\ \A k \in DOMAIN disp[s].updates :
                    disp[s].updates[k].ref \in {"thought", "action_call", "output", "action_result"}
            /\ IndexKeyed(s))
    /\ [][\A s \in Sessions : IdentitiesKept(s)]_vars

\* C21, witness: an element was first reported at time 0; after time had
\* passed a second element, with a larger index, another id and a later
\* timestamp, was first reported; and then the final update of the first
\* element was emitted, with the id and the timestamp of its first update.
C21_Witness ==
    \E s \in Sessions :
        \E k1, k2, k3 \in DOMAIN disp[s].updates :
            LET u1 == disp[s].updates[k1]
                u2 == disp[s].updates[k2]
                u3 == disp[s].updates[k3]
            IN  /\ k1 < k2 /\ k2 < k3
                /\ ~ u1.done /\ ~ u2.done /\ u3.done
                /\ u2.id # u1.id /\ u2.timestamp > u1.timestamp
                /\ Identity(u3) = Identity(u1)
                /\ disp[s].index = stream[s].initialIndex + 1

====
